---------------------------- MODULE Spec2Model ----------------------------
(***************************************************************************)
(* Verification model of two cores of varnish-cache:                       *)
(*   lib/libvarnish/vbh.c          the VM-aware binary heap (VBH)          *)
(*   lib/libvarnishapi/vxp_parse.c the VSL query parser (VXP / VEX)        *)
(*                                                                         *)
(* The heap is modelled with the test driver's element type (struct foo:   *)
(* key, idx), comparator (key < key) and update callback (idx := u).       *)
(* Sizes are scaled down: unsigned is W bits wide, a row has               *)
(* 2^ROW_SHIFT slots and a VM page has 4 slots (2 to 16 slots where the    *)
(* index arithmetic is checked on its own).                                *)
(***************************************************************************)
EXTENDS Integers, Sequences, FiniteSets, TLC

(* ------------------------------ bounds -------------------------------- *)

\* width of "unsigned" in bits
W == 8
\* number of element handles the caller owns
NElem == 4
\* keys are 0..MaxKey
MaxKey == 1
\* vbh.c:63 (scaled down from 16)
ROW_SHIFT == 1
\* handles and keys of the deep heap specification: six handles fill slots
\* 1..6, which with 4-slot pages covers every kind of parent/child link
DeepN == 6
DeepMaxKey == 1

UINT_MAX == 2^W - 1
ROW_WIDTH == 2^ROW_SHIFT
ROOT_IDX == 1
VBH_NOIDX == 0

\* page sizes (in slots) of the heap specifications: getpagesize()/sizeof(void *)
HeapPageSizes == {4}
\* page sizes VBH_new accepts (power of two, page_shift >= 1), scaled
AllPageSizes == {2, 4, 8, 16}

NULL == 0
\* an indeterminate, non-null bit pattern found in malloc()ed memory
JUNK == -1
\* the handles (struct foo pointers) and keys of the heap specification
Elems == 1..NElem
Keys == 0..MaxKey
\* the handles and keys of the deep heap specification
DeepElems == 1..DeepN
DeepKeys == 0..DeepMaxKey
\* every handle the caller may own
Handles == Elems \cup DeepElems

(* ------------------------- unsigned arithmetic ------------------------ *)

Wrap(x) == x % (2^W)

RECURSIVE BitAndN(_, _, _)
BitAndN(x, y, n) ==
    IF n = 0 THEN 0
    ELSE (IF x % 2 = 1 /\ y % 2 = 1 THEN 1 ELSE 0)
         + 2 * BitAndN(x \div 2, y \div 2, n - 1)

BitAnd(x, y) == BitAndN(x, y, W)
BitNot(x) == UINT_MAX - x
BitOr(x, y) == x + y - BitAnd(x, y)

RECURSIVE Log2(_)
Log2(p) == IF p <= 1 THEN 0 ELSE 1 + Log2(p \div 2)

VARIABLES
    page_size,  \* bh->page_size
    array,      \* bh->array: row index -> NULL or a row (slot offset -> handle)
    rows,       \* bh->rows
    length,     \* bh->length
    next,       \* bh->next
    key,        \* foo.key of every element handle
    idx,        \* foo.idx of every element handle, as written by update()
    live,       \* handles inserted and not yet deleted
    op,         \* the last public operation
    failed,     \* an assert() of vbh.c fired
    trace       \* [on, log]: when on, what the last public operation did

heapvars ==
    <<page_size, array, rows, length, next, key, idx, live, op, failed, trace>>

page_mask(P) == P - 1
page_shift(P) == Log2(P)

(* ------------------------- index arithmetic --------------------------- *)

\* parent() that forgets the page crossings: halves the offset in every page
parent_vm_inpage(P, u) ==
    BitOr(BitAnd(u, BitNot(page_mask(P))), BitAnd(u, page_mask(P)) \div 2)

\* vbh.c:101 parent(), VM_AWARE
parent_vm(P, u) ==
    LET po == BitAnd(u, page_mask(P)) IN
    IF u < P \/ po > 3
    THEN BitOr(BitAnd(u, BitNot(page_mask(P))), po \div 2)
    ELSE IF po < 2
    THEN LET v0 == Wrap(u - P) \div (2^page_shift(P))
             v1 == Wrap(v0 + BitAnd(v0, BitNot(page_mask(P) \div 2)))
         IN  BitOr(v1, P \div 2)
    ELSE Wrap(u - 2)

\* child() that truncates the cross-page target instead of clamping it
child_vm_truncating(P, u) ==
    IF u > page_mask(P) /\ BitAnd(u, page_mask(P) - 1) = 0
    THEN <<Wrap(u + 2), Wrap(u + 2)>>
    ELSE IF BitAnd(u, P \div 2) # 0
    THEN LET a0 == BitAnd(u, BitNot(page_mask(P))) \div 2
             a1 == BitOr(a0, BitAnd(u, page_mask(P) \div 2))
             a3 == Wrap(Wrap(a1 + 1) * (2^page_shift(P)))
         IN  <<a3, Wrap(a3 + 1)>>
    ELSE LET a == Wrap(u + BitAnd(u, page_mask(P)))
         IN  <<a, Wrap(a + 1)>>

\* vbh.c:122 child(), VM_AWARE; returns <<*a, *b>>
child_vm(P, u) ==
    IF u > page_mask(P) /\ BitAnd(u, page_mask(P) - 1) = 0
    THEN <<Wrap(u + 2), Wrap(u + 2)>>
    ELSE IF BitAnd(u, P \div 2) # 0
    THEN LET a0 == BitAnd(u, BitNot(page_mask(P))) \div 2
             a1 == BitOr(a0, BitAnd(u, page_mask(P) \div 2))
             a2 == Wrap(a1 + 1)
             uu == a2 * (2^page_shift(P))
             a3 == Wrap(uu)
         IN  IF a3 = uu THEN <<a3, Wrap(a3 + 1)>>
             ELSE <<UINT_MAX, UINT_MAX>>
    ELSE LET a == Wrap(u + BitAnd(u, page_mask(P)))
         IN  <<a, Wrap(a + 1)>>

\* vbh.c:167 parent(), classical layout
parent_classic(u) == u \div 2

\* vbh.c:175 child(), classical layout
child_classic(u) == <<Wrap(u * 2), Wrap(Wrap(u * 2) + 1)>>

\* parent_vm and child_vm tabulated once over every page size and index
ParentTab ==
    [P \in AllPageSizes |-> [u \in 0..UINT_MAX |-> parent_vm(P, u)]]
ChildTab ==
    [P \in AllPageSizes |-> [u \in 0..UINT_MAX |-> child_vm(P, u)]]

\* the build defines VM_AWARE (vbh.c:97)
parent(P, u) == ParentTab[P][u]
child(P, u) == ChildTab[P][u]

(* --------------------------- heap internals --------------------------- *)
(* A heap value bh is the record                                           *)
(*   [page_size, arr, rows, length, next, idx, key, ok, log]               *)
(* arr/rows/length/next are the fields of struct vbh; idx and key are the  *)
(* fields of the caller's struct foo objects, reached through the handles; *)
(* ok turns FALSE when an assert() of vbh.c fails (the process aborts).    *)
(* log is the sequence of events of the running public operation: every    *)
(* store into a slot ("write": slot u, value p), every call of the update  *)
(* callback ("update": handle p, index u, ok when slot u holds p then),    *)
(* every binhead_swap ("swap": u, v) and the entry of each trickle         *)
(* ("up", "down": from slot u).                                            *)

\* F(v) with v evaluated once, the way C evaluates an initialiser or an
\* argument before the code that uses it runs
With(v, F(_)) == CHOOSE y \in {F(x) : x \in {v}} : TRUE

Event(ev, u, v, p, ok) == [ev |-> ev, u |-> u, v |-> v, p |-> p, ok |-> ok]

Log(bh, e) == [bh EXCEPT !.log = Append(@, e)]

\* vbh.c:77-80 ROW(b, n)[n & (ROW_WIDTH - 1)]
A(bh, n) == bh.arr[n \div ROW_WIDTH][n % ROW_WIDTH]

ASet(bh, n, v) ==
    [bh EXCEPT !.arr = [@ EXCEPT ![n \div ROW_WIDTH] =
                           [@ EXCEPT ![n % ROW_WIDTH] = v]],
               !.log = Append(@, Event("write", n, 0, v, TRUE))]

Abort(bh) == [bh EXCEPT !.ok = FALSE]

\* cmp() with its arguments crossed: fb->key < fa->key
cmp_crossed(bh, a, b) == bh.key[b] < bh.key[a]

\* vbh.c:496 cmp() of the test driver: fa->key < fb->key
cmp(bh, a, b) == bh.key[a] < bh.key[b]

\* vbh.c:507 update() of the test driver: fa->idx = u
update(bh, a, u) ==
    With(bh, LAMBDA b :
        [b EXCEPT !.idx = [@ EXCEPT ![a] = u],
                  !.log = Append(@, Event("update", u, 0, a,
                                          u = VBH_NOIDX \/ A(b, u) = a))])

\* vbh.c:259
vbh_update(bh, u) ==
    IF ~bh.ok THEN bh
    ELSE IF ~(u < bh.next) THEN Abort(bh)
    ELSE IF A(bh, u) \notin Handles THEN Abort(bh)
    ELSE update(bh, A(bh, u), u)

\* binhead_swap() that stores A[v] in slot u and leaves slot v as it is
binhead_swap_copy(bh, u, v) ==
    IF ~bh.ok THEN bh
    ELSE IF ~(u < bh.next /\ v < bh.next) THEN Abort(bh)
    ELSE IF A(bh, u) \notin Handles \/ A(bh, v) \notin Handles THEN Abort(bh)
    ELSE LET b1 == ASet(Log(bh, Event("swap", u, v, 0, TRUE)), u, A(bh, v))
         IN  vbh_update(vbh_update(b1, u), v)

\* binhead_swap() that reports the new index of one of the two elements only
binhead_swap_one_update(bh, u, v) ==
    IF ~bh.ok THEN bh
    ELSE IF ~(u < bh.next /\ v < bh.next) THEN Abort(bh)
    ELSE IF A(bh, u) \notin Handles \/ A(bh, v) \notin Handles THEN Abort(bh)
    ELSE LET p == A(bh, u)
             b1 == ASet(Log(bh, Event("swap", u, v, 0, TRUE)), u, A(bh, v))
             b2 == ASet(b1, v, p)
         IN  vbh_update(b2, u)

\* vbh.c:269
binhead_swap(bh, u, v) ==
    IF ~bh.ok THEN bh
    ELSE IF ~(u < bh.next /\ v < bh.next) THEN Abort(bh)
    ELSE IF A(bh, u) \notin Handles \/ A(bh, v) \notin Handles THEN Abort(bh)
    ELSE LET p == A(bh, u)
             b1 == ASet(Log(bh, Event("swap", u, v, 0, TRUE)), u, A(bh, v))
             b2 == ASet(b1, v, p)
         IN  vbh_update(vbh_update(b2, u), v)

\* vbh_trickleup() that also moves the element past a parent it ties with
RECURSIVE vbh_trickleup_past_ties(_, _)
vbh_trickleup_past_ties(bh, u) ==
    IF ~bh.ok THEN <<bh, u>>
    ELSE IF ~(u < bh.next) THEN <<Abort(bh), u>>
    ELSE IF A(bh, u) \notin Handles THEN <<Abort(bh), u>>
    ELSE IF ~(u > ROOT_IDX) THEN <<bh, u>>
    ELSE LET v == parent(bh.page_size, u) IN
         IF ~(v < u /\ v < bh.next) THEN <<Abort(bh), u>>
         ELSE IF A(bh, v) \notin Handles THEN <<Abort(bh), u>>
         ELSE IF cmp(bh, A(bh, v), A(bh, u)) THEN <<bh, u>>
         ELSE vbh_trickleup_past_ties(binhead_swap(bh, u, v), v)

\* vbh_trickleup() that leaves the element where it is
vbh_trickleup_stay(bh, u) == <<bh, u>>

\* vbh.c:286; returns <<heap, final index>>
RECURSIVE vbh_trickleup(_, _)
vbh_trickleup(bh, u) ==
    IF ~bh.ok THEN <<bh, u>>
    ELSE IF ~(u < bh.next) THEN <<Abort(bh), u>>
    ELSE IF A(bh, u) \notin Handles THEN <<Abort(bh), u>>
    ELSE IF ~(u > ROOT_IDX) THEN <<bh, u>>
    ELSE LET v == parent(bh.page_size, u) IN
         IF ~(v < u /\ v < bh.next) THEN <<Abort(bh), u>>
         ELSE IF A(bh, v) \notin Handles THEN <<Abort(bh), u>>
         ELSE IF ~cmp(bh, A(bh, u), A(bh, v)) THEN <<bh, u>>
         ELSE vbh_trickleup(binhead_swap(bh, u, v), v)

\* vbh_trickledown() that leaves the element where it is
vbh_trickledown_stay(bh, u) == <<bh, u>>

\* vbh.c:310; returns <<heap, final index>>
RECURSIVE vbh_trickledown(_, _)
vbh_trickledown(bh, u) ==
    IF ~bh.ok THEN <<bh, u>>
    ELSE IF ~(u < bh.next) THEN <<Abort(bh), u>>
    ELSE IF A(bh, u) \notin Handles THEN <<Abort(bh), u>>
    ELSE LET c == child(bh.page_size, u)
             v1 == c[1]
             v2 == c[2]
         IN
         IF ~(v1 > 0 /\ v2 > 0 /\ v1 <= v2) THEN <<Abort(bh), u>>
         ELSE IF v1 >= bh.next THEN <<bh, u>>
         ELSE IF A(bh, v1) \notin Handles THEN <<Abort(bh), u>>
         ELSE IF v1 # v2 /\ v2 < bh.next /\ A(bh, v2) \notin Handles THEN <<Abort(bh), u>>
         ELSE LET w == IF v1 # v2 /\ v2 < bh.next
                          /\ cmp(bh, A(bh, v2), A(bh, v1))
                       THEN v2 ELSE v1
              IN  IF cmp(bh, A(bh, u), A(bh, w)) THEN <<bh, u>>
                  ELSE vbh_trickledown(binhead_swap(bh, u, w), w)

\* vbh.c:188; fill is the indeterminate content of the malloc()ed row
vbh_addrow(bh, fill) ==
    LET r == bh.length \div ROW_WIDTH
        \* realloc to twice the rows, new row pointers set to NULL
        nrows == IF r >= bh.rows THEN bh.rows * 2 ELSE bh.rows
        arr1 == [k \in 0..(nrows - 1) |->
                    IF k < bh.rows THEN bh.arr[k] ELSE NULL]
    IN  IF arr1[r] # NULL THEN Abort(bh)
        ELSE [bh EXCEPT !.rows = nrows,
                        !.arr = [arr1 EXCEPT ![r] = fill],
                        !.length = bh.length + ROW_WIDTH]

\* what malloc(sizeof(**bh->array) * ROW_WIDTH) may hand out: memory whose
\* content is indeterminate, here either all zero bits or all stale bits
RowFills == {[o \in 0..(ROW_WIDTH - 1) |-> v] : v \in {NULL, JUNK}}

\* vbh.c:209, TEST_DRIVER build (bh->rows = 1)
VBH_new(P, fill) ==
    LET b0 == [page_size |-> P, arr |-> [k \in 0..0 |-> NULL], rows |-> 1,
               length |-> 0, next |-> ROOT_IDX,
               idx |-> [e \in Handles |-> 0], key |-> [e \in Handles |-> 0],
               ok |-> TRUE, log |-> <<>>]
    IN  ASet(vbh_addrow(b0, fill), ROOT_IDX, NULL)

\* vbh.c:345
VBH_insert(bh, p, fill) ==
    IF ~(bh.length >= bh.next) THEN Abort(bh)
    ELSE LET b1 == IF bh.length = bh.next THEN vbh_addrow(bh, fill) ELSE bh IN
         IF ~b1.ok \/ ~(b1.length > b1.next) THEN Abort(b1)
         ELSE LET u == b1.next
                  b2 == ASet([b1 EXCEPT !.next = Wrap(u + 1)], u, p)
              IN  vbh_trickleup(Log(vbh_update(b2, u),
                                    Event("up", u, 0, 0, TRUE)), u)[1]

\* vbh.c:377
VBH_root(bh) == A(bh, ROOT_IDX)

\* vbh.c:443-447, the release of the tail row
vbh_shrink(bh) ==
    IF bh.next + 2 * ROW_WIDTH <= bh.length
    THEN [bh EXCEPT !.arr = [@ EXCEPT ![(bh.length - 1) \div ROW_WIDTH] = NULL],
                    !.length = bh.length - ROW_WIDTH]
    ELSE bh

\* VBH_delete() without the update(..., VBH_NOIDX) notification
VBH_delete_silent(bh, i) ==
    IF ~(bh.next > ROOT_IDX /\ i < bh.next /\ i > 0) THEN Abort(bh)
    ELSE IF A(bh, i) \notin Handles THEN Abort(bh)
    ELSE LET b2 == [bh EXCEPT !.next = bh.next - 1]
         IN  IF i = b2.next THEN ASet(b2, b2.next, NULL)
             ELSE LET b3 == ASet(ASet(b2, i, A(b2, b2.next)), b2.next, NULL)
                      up == vbh_trickleup(
                                Log(vbh_update(b3, i),
                                    Event("up", i, 0, 0, TRUE)), i)
                      dn == vbh_trickledown(
                                Log(up[1], Event("down", up[2], 0, 0, TRUE)),
                                up[2])
                  IN  IF ~dn[1].ok THEN dn[1] ELSE vbh_shrink(dn[1])

\* VBH_delete() that leaves the old handle in the vacated tail slot
VBH_delete_stale_tail(bh, i) ==
    IF ~(bh.next > ROOT_IDX /\ i < bh.next /\ i > 0) THEN Abort(bh)
    ELSE IF A(bh, i) \notin Handles THEN Abort(bh)
    ELSE LET b1 == update(bh, A(bh, i), VBH_NOIDX)
             b2 == [b1 EXCEPT !.next = bh.next - 1]
         IN  IF i = b2.next THEN b2
             ELSE LET b3 == ASet(b2, i, A(b2, b2.next))
                      up == vbh_trickleup(
                                Log(vbh_update(b3, i),
                                    Event("up", i, 0, 0, TRUE)), i)
                      dn == vbh_trickledown(
                                Log(up[1], Event("down", up[2], 0, 0, TRUE)),
                                up[2])
                  IN  IF ~dn[1].ok THEN dn[1] ELSE vbh_shrink(dn[1])

\* vbh.c:412
VBH_delete(bh, i) ==
    IF ~(bh.next > ROOT_IDX /\ i < bh.next /\ i > 0) THEN Abort(bh)
    ELSE IF A(bh, i) \notin Handles THEN Abort(bh)
    ELSE LET b1 == update(bh, A(bh, i), VBH_NOIDX)
             b2 == [b1 EXCEPT !.next = bh.next - 1]
         IN  IF i = b2.next THEN ASet(b2, b2.next, NULL)
             ELSE LET b3 == ASet(ASet(b2, i, A(b2, b2.next)), b2.next, NULL)
                      up == vbh_trickleup(
                                Log(vbh_update(b3, i),
                                    Event("up", i, 0, 0, TRUE)), i)
                      dn == vbh_trickledown(
                                Log(up[1], Event("down", up[2], 0, 0, TRUE)),
                                up[2])
                  IN  IF ~dn[1].ok THEN dn[1] ELSE vbh_shrink(dn[1])

\* vbh.c:454
VBH_reorder(bh, i) ==
    IF ~(bh.next > ROOT_IDX /\ i < bh.next /\ i > 0) THEN Abort(bh)
    ELSE IF A(bh, i) \notin Handles THEN Abort(bh)
    ELSE LET up == vbh_trickleup(Log(bh, Event("up", i, 0, 0, TRUE)), i)
         IN  vbh_trickledown(Log(up[1], Event("down", up[2], 0, 0, TRUE)),
                             up[2])[1]

(* ------------------------ heap state machine -------------------------- *)

\* the heap and the caller's objects as one value
Cur ==
    [page_size |-> page_size, arr |-> array, rows |-> rows, length |-> length,
     next |-> next, idx |-> idx, key |-> key, ok |-> ~failed, log |-> <<>>]

\* the state after an operation that left the heap value b
Becomes(b) ==
    /\ page_size' = b.page_size
    /\ array' = b.arr
    /\ rows' = b.rows
    /\ length' = b.length
    /\ next' = b.next
    /\ idx' = b.idx
    /\ key' = b.key
    /\ failed' = ~b.ok
    /\ trace' = [trace EXCEPT !.log = IF trace.on THEN b.log ELSE <<>>]

\* on: the caller keeps a record of what each public operation does
HeapInitT(Ps, on) ==
    /\ \E P \in Ps, fill \in RowFills :
          LET b == VBH_new(P, fill) IN
          /\ page_size = b.page_size
          /\ array = b.arr
          /\ rows = b.rows
          /\ length = b.length
          /\ next = b.next
          /\ idx = b.idx
          /\ key = b.key
          /\ failed = ~b.ok
    /\ live = {}
    /\ op = "new"
    /\ trace = [on |-> on, log |-> <<>>]

HeapInitP(Ps) == HeapInitT(Ps, FALSE)

\* main(): ALLOC_OBJ(ff[v]); ff[v]->key = k; VBH_insert(bh, ff[v])
Insert(e, k) ==
    /\ ~failed
    /\ e \notin live
    /\ \E fill \in (IF length = next THEN RowFills
                    ELSE {[o \in 0..(ROW_WIDTH - 1) |-> NULL]}) :
          LET b0 == [Cur EXCEPT !.key = [@ EXCEPT ![e] = k],
                                !.idx = [@ EXCEPT ![e] = 0]]
          IN  Becomes(VBH_insert(b0, e, fill))
    /\ live' = live \cup {e}

\* main(): VBH_delete(bh, i); FREE_OBJ(fp)
Delete(i) ==
    /\ ~failed
    /\ i \in 1..(next - 1)
    /\ LET e == A(Cur, i)
           b == VBH_delete(Cur, i)
       IN  /\ Becomes([b EXCEPT !.key = [@ EXCEPT ![e] = 0]])
           /\ live' = live \ {e}

\* main(): ff[v]->key = k; VBH_reorder(bh, ff[v]->idx)
Reorder(i, k) ==
    /\ ~failed
    /\ i \in 1..(next - 1)
    /\ key[A(Cur, i)] # k
    /\ LET e == A(Cur, i)
           b0 == [Cur EXCEPT !.key = [@ EXCEPT ![e] = k]]
       IN  Becomes(VBH_reorder(b0, i))
    /\ live' = live

(* ------------------------- ghost bookkeeping -------------------------- *)

VARIABLES
    phase,      \* round trip: "ins" only inserts since VBH_new, "del" then only deletes
    draining,   \* the drain loop of main() is running
    lr,         \* main(): the key of the last element the drain loop removed
    seen,       \* handles the drain loop has removed
    dstart      \* handles that were live when the drain loop started

ghostvars == <<phase, draining, lr, seen, dstart>>

GhostInit ==
    /\ phase = "ins"
    /\ draining = FALSE
    /\ lr = 0
    /\ seen = {}
    /\ dstart = {}

(* ----------------------- index arithmetic probe ----------------------- *)

VARIABLES
    ilayout,    \* "vm" (VM_AWARE) or "classic" (the #else branch)
    iu,         \* the index child() is called with
    ires        \* the children and what parent() returns for them, once done

idxvars == <<ilayout, iu, ires>>

\* vbh.c:107 assert(u != UINT_MAX): parent() aborts on that index
parent_aborts(layout, u) == layout = "vm" /\ u = UINT_MAX

parent_of(layout, P, u) ==
    IF layout = "vm" THEN parent_vm(P, u) ELSE parent_classic(u)

child_of(layout, P, u) ==
    IF layout = "vm" THEN child_vm(P, u) ELSE child_classic(u)

IdxInit ==
    /\ ilayout = "vm"
    /\ iu = 1
    /\ ires = [a |-> 0, b |-> 0, skip |-> FALSE, abort |-> FALSE,
               pa |-> 0, pb |-> 0, n |-> 0, head |-> "", done |-> FALSE]

\* main(): child(bh, n, &u, &v), followed by the PARANOIA check of child();
\* pa and pb are what parent() returned for the two children (0: not called)
IdxProbe(layout, u) ==
    /\ ~ires.done
    /\ ilayout' = layout
    /\ iu' = u
    /\ LET c == child_of(layout, page_size, u)
           \* vbh.c:157 if (*a != UINT_MAX): otherwise parent() is not called
           skip == layout = "vm" /\ c[1] = UINT_MAX
           aa == ~skip /\ parent_aborts(layout, c[1])
           ab == ~skip /\ parent_aborts(layout, c[2])
       IN  ires' = [a |-> c[1], b |-> c[2], skip |-> skip,
                    abort |-> aa \/ ab,
                    pa |-> IF skip \/ aa THEN 0
                           ELSE parent_of(layout, page_size, c[1]),
                    pb |-> IF skip \/ ab THEN 0
                           ELSE parent_of(layout, page_size, c[2]),
                    n |-> 0, head |-> "", done |-> TRUE]

\* vbh.c:319-328, the head of the loop of vbh_trickledown() at slot u of a
\* heap with bh->next = n: an assert fails, the loop returns u, or it goes on
\* to look at the children
trickledown_head(P, u, n) ==
    LET c == child(P, u)
        v1 == c[1]
        v2 == c[2]
    IN  IF ~(u < n) THEN "abort"
        ELSE IF ~(v1 > 0 /\ v2 > 0 /\ v1 <= v2) THEN "abort"
        ELSE IF v1 >= n THEN "return"
        ELSE "children"

\* vbh_trickledown(bh, u) entering its loop with bh->next = n
DownProbe(u, n) ==
    /\ ~ires.done
    /\ ilayout' = "vm"
    /\ iu' = u
    /\ LET c == child(page_size, u) IN
       ires' = [a |-> c[1], b |-> c[2], skip |-> FALSE, abort |-> FALSE,
                pa |-> 0, pb |-> 0, n |-> n,
                head |-> trickledown_head(page_size, u, n), done |-> TRUE]

(* ----------------------------- VXP parser ----------------------------- *)
(* A token is [tok, dec]: tok is the token kind, dec the decoded payload   *)
(* of a VAL token as a sequence of characters.  A pointer is a sequence    *)
(* of length 0 (null) or 1 (the object pointed to).  A parser state px is  *)
(*   [toks, t, err, ndiag, mem, nalloc, errat]                             *)
(* toks the token list, t the index of the current token (0: null), err    *)
(* the error flag, ndiag the number of diagnostics written to vxp->sb, mem *)
(* the number of live allocations of every kind, nalloc the number of      *)
(* allocations made so far, and errat null or the pair [t, nalloc] as it   *)
(* was when the error flag was first set.                                  *)

NIL == <<>>
Ptr(x) == <<x>>

\* longest token list of the parser specification
MaxTokens == 5

Tk(kind) == [tok |-> kind, dec |-> <<>>]
Val(chars) == [tok |-> "VAL", dec |-> chars]

NumericOps == {"T_EQ", "<", ">", "T_GEQ", "T_LEQ", "T_NEQ"}
StringOps == {"T_SEQ", "T_SNEQ"}
MatchOps == {"~", "T_NOMATCH"}

NoMem == [vex |-> 0, lhs |-> 0, rhs |-> 0, tags |-> 0, str |-> 0, re |-> 0]

Alloc(p, kind) ==
    With(p, LAMBDA px : [px EXCEPT !.mem = [@ EXCEPT ![kind] = @ + 1],
                                   !.nalloc = @ + 1])

\* the kind of the current token; "" stands for the read through a null vxp->t
Tok(px) == IF px.t = 0 THEN "" ELSE px.toks[px.t].tok
Dec(px) == IF px.t = 0 THEN <<>> ELSE px.toks[px.t].dec

\* VTAILQ_NEXT(vxp->t, list)
NextOf(px) == IF px.t = 0 \/ px.t >= Len(px.toks) THEN 0 ELSE px.t + 1

\* vxp_ErrWhere(): the diagnostic is complete, vxp->err = 1
vxp_ErrWhere(p) ==
    With(p, LAMBDA px :
        [px EXCEPT !.err = 1, !.ndiag = @ + 1,
                   !.errat = IF px.err = 0
                             THEN Ptr([t |-> px.t, nalloc |-> px.nalloc])
                             ELSE @])

\* vxp_NextToken(): advance; running out of tokens is an error
vxp_NextToken(p) ==
    With(p, LAMBDA px :
        IF NextOf(px) = 0 THEN vxp_ErrWhere([px EXCEPT !.t = 0])
        ELSE [px EXCEPT !.t = NextOf(px)])

\* vxp__Expect(): the current token must be of kind tok
vxp__Expect(p, tok) ==
    With(p, LAMBDA px : IF Tok(px) = tok THEN px ELSE vxp_ErrWhere(px))

\* SkipToken(a, b): vxp__Expect; ERRCHK; vxp_NextToken
SkipToken(p, tok) ==
    With(vxp__Expect(p, tok), LAMBDA p1 :
        IF p1.err # 0 THEN p1 ELSE vxp_NextToken(p1))

(* ---- libc and library helpers the parser calls ---- *)

Digits == {"0", "1", "2", "3", "4", "5", "6", "7", "8", "9"}
DigitVal(c) ==
    CASE c = "0" -> 0 [] c = "1" -> 1 [] c = "2" -> 2 [] c = "3" -> 3
      [] c = "4" -> 4 [] c = "5" -> 5 [] c = "6" -> 6 [] c = "7" -> 7
      [] c = "8" -> 8 [] c = "9" -> 9

RECURSIVE DigitRun(_, _)
\* the value and the rest after the longest run of digits, from value acc
DigitRun(cs, acc) ==
    IF cs # <<>> /\ Head(cs) \in Digits
    THEN DigitRun(Tail(cs), acc * 10 + DigitVal(Head(cs)))
    ELSE [val |-> acc, rest |-> cs]

RECURSIVE SkipSpace(_)
SkipSpace(cs) == IF cs # <<>> /\ Head(cs) = " " THEN SkipSpace(Tail(cs)) ELSE cs

\* strtol(dec, &p, 0) on decimal input: [val, rest]; without digits nothing
\* is converted: val = 0 and rest is the whole string
strtol(cs) ==
    LET s0 == SkipSpace(cs)
        neg == s0 # <<>> /\ Head(s0) = "-"
        s1 == IF s0 # <<>> /\ Head(s0) \in {"-", "+"} THEN Tail(s0) ELSE s0
    IN  IF s1 = <<>> \/ Head(s1) \notin Digits THEN [val |-> 0, rest |-> cs]
        ELSE LET r == DigitRun(s1, 0)
             IN  [val |-> IF neg THEN 0 - r.val ELSE r.val, rest |-> r.rest]

HasDot(cs) == \E i \in 1..Len(cs) : cs[i] = "."

\* VNUM(): FALSE stands for nan; a number is digits [ "." digits ]
VNUM_ok(cs) ==
    LET r1 == DigitRun(cs, 0)
        r2 == IF r1.rest # <<>> /\ Head(r1.rest) = "."
              THEN DigitRun(Tail(r1.rest), 0) ELSE r1
    IN  cs # <<>> /\ Head(cs) \in Digits /\ r2.rest = <<>>

\* the known tags (VSL_tags) by the glob that names them
KnownTags == {<<"R">>, <<"B">>}

\* VSL_Glob2Tags(): [i, tags]; i > 0 tags matched, -1 none, -3 malformed
VSL_Glob2Tags(cs) ==
    IF cs \in KnownTags THEN [i |-> 1, tags |-> {cs}]
    ELSE IF cs = <<"*", "*">> THEN [i |-> 0 - 3, tags |-> {}]
    ELSE [i |-> 0 - 1, tags |-> {}]

\* VRE_compile(): TRUE when the regular expression compiles
VRE_compile_ok(cs) == cs # <<>> /\ Head(cs) # "("

(* ---- the productions; each returns the parser state and what it built ---- *)

NewNode == [tok |-> "", a |-> NIL, b |-> NIL, lhs |-> NIL, rhs |-> NIL]
NewLhs ==
    [tags |-> {}, level |-> 0 - 1, level_pm |-> 0, prefix |-> NIL,
     prefixlen |-> 0, field |-> 0, vxid |-> 0, taglist |-> 0]
NewRhs ==
    [type |-> "", val_int |-> 0, val_string |-> NIL, val_regex |-> NIL]

\* vxp_parse.c:56
vex_alloc(px) == Alloc(px, "vex")

\* vxp_parse.c:80-110, the transaction level limits
lhs_level(p, l) ==
    With(p, LAMBDA px :
    IF Tok(px) # "{" THEN [px |-> px, lhs |-> l]
    ELSE With(vxp_NextToken(px), LAMBDA p1 :
         IF Tok(p1) # "VAL" THEN [px |-> vxp_ErrWhere(p1), lhs |-> l]
         ELSE With(strtol(Dec(p1)), LAMBDA r :
              LET l1 == [l EXCEPT !.level = r.val] IN
              IF r.val < 0 THEN [px |-> vxp_ErrWhere(p1), lhs |-> l1]
              ELSE LET pm == IF r.rest # <<>> /\ Head(r.rest) = "-" THEN 0 - 1
                             ELSE IF r.rest # <<>> /\ Head(r.rest) = "+" THEN 1
                             ELSE 0
                       rest == IF pm # 0 THEN Tail(r.rest) ELSE r.rest
                       l2 == [l1 EXCEPT !.level_pm = pm]
                   IN
                   IF rest # <<>> THEN [px |-> vxp_ErrWhere(p1), lhs |-> l2]
                   ELSE With(vxp__Expect(vxp_NextToken(p1), "}"), LAMBDA p2 :
                        IF p2.err # 0 THEN [px |-> p2, lhs |-> l2]
                        ELSE [px |-> vxp_NextToken(p2), lhs |-> l2]))))

\* vxp_parse.c:112-147, the tags this expression applies to
RECURSIVE lhs_tags(_, _)
lhs_tags(p, l0) ==
    With(<<p, l0>>, LAMBDA pl :
    LET px == pl[1]
        l == pl[2]
    IN
    IF Tok(px) # "VXID" /\ Tok(px) # "VAL"
    THEN [px |-> vxp_ErrWhere(px), lhs |-> l]
    ELSE LET g == IF Tok(px) = "VXID" THEN [i |-> 0, tags |-> {}]
                  ELSE VSL_Glob2Tags(Dec(px))
             l1 == IF Tok(px) = "VXID" THEN [l EXCEPT !.vxid = @ + 1]
                   ELSE [l EXCEPT !.taglist = @ + 1,
                                  !.tags = @ \cup g.tags]
         IN
         IF g.i < 0 THEN [px |-> vxp_ErrWhere(px), lhs |-> l1]
         ELSE With(vxp_NextToken(px), LAMBDA p1 :
              IF Tok(p1) # "," THEN [px |-> p1, lhs |-> l1]
              ELSE lhs_tags(vxp_NextToken(p1), l1)))

\* vxp_parse.c:149-163, the record prefix
lhs_prefix(p, l) ==
    With(p, LAMBDA px :
    IF Tok(px) # ":" THEN [px |-> px, lhs |-> l]
    ELSE With(vxp_NextToken(px), LAMBDA p1 :
         IF Tok(p1) # "VAL" THEN [px |-> vxp_ErrWhere(p1), lhs |-> l]
         ELSE [px |-> vxp_NextToken(Alloc(p1, "str")),
               lhs |-> [l EXCEPT !.prefix = Ptr(Dec(p1)),
                                 !.prefixlen = Len(Dec(p1))]]))

\* vxp_parse.c:165-183, the field index
lhs_field(p, l) ==
    With(p, LAMBDA px :
    IF Tok(px) # "[" THEN [px |-> px, lhs |-> l]
    ELSE With(vxp_NextToken(px), LAMBDA p1 :
         IF Tok(p1) # "VAL" THEN [px |-> vxp_ErrWhere(p1), lhs |-> l]
         ELSE With(strtol(Dec(p1)), LAMBDA r :
              LET l1 == [l EXCEPT !.field = r.val] IN
              IF r.rest # <<>> \/ r.val <= 0
              THEN [px |-> vxp_ErrWhere(p1), lhs |-> l1]
              ELSE With(vxp__Expect(vxp_NextToken(p1), "]"), LAMBDA p2 :
                   IF p2.err # 0 THEN [px |-> p2, lhs |-> l1]
                   ELSE [px |-> vxp_NextToken(p2), lhs |-> l1]))))

\* vxp_parse.c:185-193, vxid excludes every other selection
lhs_vxid(px, l) ==
    IF l.vxid = 0 THEN [px |-> px, lhs |-> l]
    ELSE IF l.vxid > 1 \/ l.level >= 0 \/ l.field > 0 \/ l.prefixlen > 0
            \/ l.taglist > 0
    THEN [px |-> vxp_ErrWhere(px), lhs |-> l]
    ELSE [px |-> px, lhs |-> l]

\* vxp_parse.c:67; returns [px, lhs] with lhs the pointer stored in *plhs
vxp_expr_lhs(p) ==
    With(lhs_level(Alloc(Alloc(p, "lhs"), "tags"), NewLhs), LAMBDA r1 :
    With(IF r1.px.err # 0 THEN r1 ELSE lhs_tags(r1.px, r1.lhs), LAMBDA r2 :
    With(IF r2.px.err # 0 THEN r2 ELSE lhs_prefix(r2.px, r2.lhs), LAMBDA r3 :
    With(IF r3.px.err # 0 THEN r3 ELSE lhs_field(r3.px, r3.lhs), LAMBDA r4 :
    With(IF r4.px.err # 0 THEN r4 ELSE lhs_vxid(r4.px, r4.lhs), LAMBDA r5 :
        [px |-> r5.px, lhs |-> Ptr(r5.lhs)])))))

\* vxp_parse.c:196; returns [px, rhs]
vxp_expr_num(p, vxid) ==
    With(p, LAMBDA px :
    IF Tok(px) # "VAL" THEN [px |-> vxp_ErrWhere(px), rhs |-> NIL]
    ELSE With(Alloc(px, "rhs"), LAMBDA p1 :
         IF HasDot(Dec(px))
         THEN LET r == [NewRhs EXCEPT !.type = "VEX_FLOAT"] IN
              IF ~VNUM_ok(Dec(px)) THEN [px |-> vxp_ErrWhere(p1), rhs |-> Ptr(r)]
              ELSE IF vxid # 0 THEN [px |-> vxp_ErrWhere(p1), rhs |-> Ptr(r)]
              ELSE [px |-> vxp_NextToken(p1), rhs |-> Ptr(r)]
         ELSE With(strtol(Dec(px)), LAMBDA n :
              LET r == [NewRhs EXCEPT !.type = "VEX_INT", !.val_int = n.val]
              IN
              IF SkipSpace(n.rest) # <<>>
              THEN [px |-> vxp_ErrWhere(p1), rhs |-> Ptr(r)]
              ELSE [px |-> vxp_NextToken(p1), rhs |-> Ptr(r)])))

\* vxp_parse.c:239
vxp_expr_str(p) ==
    With(p, LAMBDA px :
    IF Tok(px) # "VAL" THEN [px |-> vxp_ErrWhere(px), rhs |-> NIL]
    ELSE [px |-> vxp_NextToken(Alloc(Alloc(px, "rhs"), "str")),
          rhs |-> Ptr([NewRhs EXCEPT !.type = "VEX_STRING",
                                     !.val_string = Ptr(Dec(px))])])

\* vxp_expr_regex() that keeps the pattern and never compiles it
vxp_expr_regex_no_compile(p) ==
    With(p, LAMBDA px :
    IF Tok(px) # "VAL" THEN [px |-> vxp_ErrWhere(px), rhs |-> NIL]
    ELSE [px |-> vxp_NextToken(Alloc(Alloc(px, "rhs"), "str")),
          rhs |-> Ptr([NewRhs EXCEPT !.type = "VEX_REGEX",
                                     !.val_string = Ptr(Dec(px))])])

\* vxp_parse.c:260
vxp_expr_regex(p) ==
    With(p, LAMBDA px :
    IF Tok(px) # "VAL" THEN [px |-> vxp_ErrWhere(px), rhs |-> NIL]
    ELSE With(Alloc(Alloc(px, "rhs"), "str"), LAMBDA p1 :
         LET r == [NewRhs EXCEPT !.type = "VEX_REGEX",
                                 !.val_string = Ptr(Dec(px))]
         IN  IF ~VRE_compile_ok(Dec(px))
             THEN [px |-> vxp_ErrWhere(p1), rhs |-> Ptr(r)]
             ELSE [px |-> vxp_NextToken(Alloc(p1, "re")),
                   rhs |-> Ptr([r EXCEPT !.val_regex = Ptr("vre")])]))

\* vxp_parse.c:292
vxp_vxid_cmp(p) ==
    With(p, LAMBDA px :
        IF Tok(px) \in NumericOps THEN px ELSE vxp_ErrWhere(px))

\* vxp_parse.c:321; returns [px, vex]
vxp_expr_cmp(p) ==
    With(vxp_expr_lhs(vex_alloc(p)), LAMBDA rl :
    With(IF rl.px.err # 0 THEN rl.px
         ELSE IF rl.lhs[1].vxid # 0 THEN vxp_vxid_cmp(rl.px)
         ELSE rl.px, LAMBDA p1 :
    LET n0 == [NewNode EXCEPT !.lhs = rl.lhs] IN
    IF p1.err # 0 THEN [px |-> p1, vex |-> Ptr(n0)]
    ELSE IF Tok(p1) \in {"EOI", "T_AND", "T_OR", ")"}
    THEN [px |-> p1, vex |-> Ptr([n0 EXCEPT !.tok = "T_TRUE"])]
    ELSE IF Tok(p1) \notin NumericOps \cup StringOps \cup MatchOps
    THEN [px |-> vxp_ErrWhere(p1), vex |-> Ptr(n0)]
    ELSE LET n1 == [n0 EXCEPT !.tok = Tok(p1)] IN
         With(vxp_NextToken(p1), LAMBDA p2 :
         IF p2.err # 0 THEN [px |-> p2, vex |-> Ptr(n1)]
         ELSE With(IF n1.tok \in NumericOps
                   THEN vxp_expr_num(p2, rl.lhs[1].vxid)
                   ELSE IF n1.tok \in StringOps THEN vxp_expr_str(p2)
                   ELSE vxp_expr_regex(p2), LAMBDA rr :
              [px |-> rr.px, vex |-> Ptr([n1 EXCEPT !.rhs = rr.rhs])]))))

RECURSIVE vxp_expr_or(_)

\* vxp_expr_group() that takes the ')' when there is one and asks for none
vxp_expr_group_open(p) ==
    With(p, LAMBDA px :
    IF Tok(px) = "("
    THEN With(vxp_expr_or(SkipToken(px, "(")), LAMBDA r :
         IF r.px.err # 0 \/ Tok(r.px) # ")" THEN r
         ELSE [px |-> SkipToken(r.px, ")"), vex |-> r.vex])
    ELSE vxp_expr_cmp(px))

\* vxp_parse.c:405
vxp_expr_group(p) ==
    With(p, LAMBDA px :
    IF Tok(px) = "("
    THEN With(vxp_expr_or(SkipToken(px, "(")), LAMBDA r :
         IF r.px.err # 0 THEN r
         ELSE [px |-> SkipToken(r.px, ")"), vex |-> r.vex])
    ELSE vxp_expr_cmp(px))

\* vxp_parse.c:430
vxp_expr_not(p) ==
    With(p, LAMBDA px :
    IF Tok(px) = "T_NOT"
    THEN With(vxp_expr_group(vxp_NextToken(vex_alloc(px))), LAMBDA r :
         [px |-> r.px,
          vex |-> Ptr([NewNode EXCEPT !.tok = "T_NOT", !.a = r.vex])])
    ELSE vxp_expr_group(px))

\* the loop over 'and' with the node built so far as child b of the new one
RECURSIVE and_loop_right(_, _)
and_loop_right(p, vex) ==
    With(p, LAMBDA px :
    IF Tok(px) # "T_AND" THEN [px |-> px, vex |-> vex]
    ELSE LET n == [NewNode EXCEPT !.tok = "T_AND", !.b = vex] IN
         With(vxp_NextToken(vex_alloc(px)), LAMBDA p1 :
         IF p1.err # 0 THEN [px |-> p1, vex |-> Ptr(n)]
         ELSE With(vxp_expr_not(p1), LAMBDA r :
              IF r.px.err # 0
              THEN [px |-> r.px, vex |-> Ptr([n EXCEPT !.a = r.vex])]
              ELSE and_loop_right(r.px, Ptr([n EXCEPT !.a = r.vex])))))

\* vxp_parse.c:464-474, the loop over 'and'
RECURSIVE and_loop(_, _)
and_loop(p, vex) ==
    With(p, LAMBDA px :
    IF Tok(px) # "T_AND" THEN [px |-> px, vex |-> vex]
    ELSE LET n == [NewNode EXCEPT !.tok = "T_AND", !.a = vex] IN
         With(vxp_NextToken(vex_alloc(px)), LAMBDA p1 :
         IF p1.err # 0 THEN [px |-> p1, vex |-> Ptr(n)]
         ELSE With(vxp_expr_not(p1), LAMBDA r :
              IF r.px.err # 0
              THEN [px |-> r.px, vex |-> Ptr([n EXCEPT !.b = r.vex])]
              ELSE and_loop(r.px, Ptr([n EXCEPT !.b = r.vex])))))

\* vxp_expr_and() without the ERRCHK after its first operand
vxp_expr_and_no_errchk(p) ==
    With(vxp_expr_not(p), LAMBDA r : and_loop(r.px, r.vex))

\* vxp_parse.c:455
vxp_expr_and(p) ==
    With(vxp_expr_not(p), LAMBDA r :
        IF r.px.err # 0 THEN r ELSE and_loop(r.px, r.vex))

\* vxp_parse.c:492-502, the loop over 'or'
RECURSIVE or_loop(_, _)
or_loop(p, vex) ==
    With(p, LAMBDA px :
    IF Tok(px) # "T_OR" THEN [px |-> px, vex |-> vex]
    ELSE LET n == [NewNode EXCEPT !.tok = "T_OR", !.a = vex] IN
         With(vxp_NextToken(vex_alloc(px)), LAMBDA p1 :
         IF p1.err # 0 THEN [px |-> p1, vex |-> Ptr(n)]
         ELSE With(vxp_expr_and(p1), LAMBDA r :
              IF r.px.err # 0
              THEN [px |-> r.px, vex |-> Ptr([n EXCEPT !.b = r.vex])]
              ELSE or_loop(r.px, Ptr([n EXCEPT !.b = r.vex])))))

\* vxp_expr_or() whose first operand is a vxp_expr_not, not a vxp_expr_and
vxp_expr_or_over_not(p) ==
    With(vxp_expr_not(p), LAMBDA r :
        IF r.px.err # 0 THEN r ELSE or_loop(r.px, r.vex))

\* vxp_parse.c:483
vxp_expr_or(p) ==
    With(vxp_expr_and(p), LAMBDA r :
        IF r.px.err # 0 THEN r ELSE or_loop(r.px, r.vex))

\* vxp_expr() that keeps the accumulated tree as a and adds the new one as b
vxp_expr_append(p, vex) ==
    With(vxp_expr_or(p), LAMBDA r :
    With(IF r.px.err # 0 THEN r
         ELSE [px |-> vxp__Expect(r.px, "EOI"), vex |-> r.vex], LAMBDA ra :
    IF vex = NIL THEN ra
    ELSE IF ra.px.err # 0 THEN [px |-> ra.px, vex |-> vex]
    ELSE [px |-> vex_alloc(ra.px),
          vex |-> Ptr([NewNode EXCEPT !.tok = "T_OR", !.a = vex,
                                       !.b = ra.vex])]))

\* vxp_parse.c:511; vex is *pvex on entry, the result's vex is *pvex on return
vxp_expr(p, vex) ==
    IF vex = NIL
    THEN With(vxp_expr_or(p), LAMBDA r :
         IF r.px.err # 0 THEN r
         ELSE [px |-> vxp__Expect(r.px, "EOI"), vex |-> r.vex])
    ELSE \* vxp_expr(vxp, &a) with a == NULL
         With(vxp_expr_or(p), LAMBDA r :
         With(IF r.px.err # 0 THEN r
              ELSE [px |-> vxp__Expect(r.px, "EOI"), vex |-> r.vex],
              LAMBDA ra :
         \* ERRCHK(vxp): the local a goes out of scope, *pvex is untouched
         IF ra.px.err # 0 THEN [px |-> ra.px, vex |-> vex]
         ELSE [px |-> vex_alloc(ra.px),
               vex |-> Ptr([NewNode EXCEPT !.tok = "T_OR", !.b = vex,
                                            !.a = ra.vex])]))

\* vex_Free() that releases the node and what it holds but not its children
vex_Free_shallow(mem, vex) ==
    LET v == vex[1]
        m1 == IF v.lhs = NIL THEN mem
              ELSE [mem EXCEPT
                      !.tags = @ - 1,
                      !.str = IF v.lhs[1].prefix # NIL THEN @ - 1 ELSE @,
                      !.lhs = @ - 1]
        m2 == IF v.rhs = NIL THEN m1
              ELSE [m1 EXCEPT
                      !.str = IF v.rhs[1].val_string # NIL THEN @ - 1 ELSE @,
                      !.re = IF v.rhs[1].val_regex # NIL THEN @ - 1 ELSE @,
                      !.rhs = @ - 1]
    IN  [m2 EXCEPT !.vex = @ - 1]

\* vxp_parse.c:573; returns the allocation counts after the tree is freed
RECURSIVE vex_Free(_, _)
vex_Free(mem, vex) ==
    LET v == vex[1]
        m1 == IF v.lhs = NIL THEN mem
              ELSE [mem EXCEPT
                      !.tags = @ - 1,
                      !.str = IF v.lhs[1].prefix # NIL THEN @ - 1 ELSE @,
                      !.lhs = @ - 1]
        m2 == IF v.rhs = NIL THEN m1
              ELSE [m1 EXCEPT
                      !.str = IF v.rhs[1].val_string # NIL THEN @ - 1 ELSE @,
                      !.re = IF v.rhs[1].val_regex # NIL THEN @ - 1 ELSE @,
                      !.rhs = @ - 1]
        m3 == IF v.a = NIL THEN m2 ELSE vex_Free(m2, v.a)
        m4 == IF v.b = NIL THEN m3 ELSE vex_Free(m3, v.b)
    IN  [m4 EXCEPT !.vex = @ - 1]

\* vxp_parse.c:548-549, ignore empty queries
RECURSIVE SkipEOI(_)
SkipEOI(p) ==
    With(p, LAMBDA px :
        IF px.t # 0 /\ Tok(px) = "EOI"
        THEN SkipEOI([px EXCEPT !.t = NextOf(px)])
        ELSE px)

\* vxp_parse.c:546-564, the loop over the queries
RECURSIVE parse_loop(_, _)
parse_loop(p, vex) ==
    With(SkipEOI(p), LAMBDA p1 :
    IF p1.t = 0 THEN [px |-> p1, ret |-> vex]
    ELSE With(vxp_expr(p1, vex), LAMBDA r :
         IF r.px.err # 0
         THEN [px |-> IF r.vex # NIL
                      THEN [r.px EXCEPT !.mem = vex_Free(r.px.mem, r.vex)]
                      ELSE r.px,
               ret |-> NIL]
         ELSE parse_loop([r.px EXCEPT !.t = NextOf(r.px)], r.vex)))

\* vxp_parse.c:538; returns [px, ret]
vxp_Parse(toks) ==
    parse_loop([toks |-> toks, t |-> IF toks = <<>> THEN 0 ELSE 1,
                err |-> 0, ndiag |-> 0, mem |-> NoMem, nalloc |-> 0,
                errat |-> NIL], NIL)

(* ------------------------- parser state machine ----------------------- *)

VARIABLES
    tokens,     \* the token list the lexer left in vxp->tokens
    pres,       \* what vxp_Parse returned and the parser state then, once done
    query       \* the parts of the query text the tokens were made from

parsevars == <<tokens, pres, query>>

\* the tokens the parser specification draws from
ParseAlphabet ==
    {Val(<<"R">>), Val(<<"1">>), Tk("EOI"), Tk("T_OR"), Tk("T_AND"),
     Tk("T_NOT"), Tk("("), Tk(")"), Tk("T_EQ"), Tk("~")}

ParseInit ==
    /\ tokens = <<>>
    /\ query = [kind |-> "none"]
    /\ pres = [done |-> FALSE, freed |-> FALSE, ret |-> NIL, err |-> 0,
               t |-> 0, ndiag |-> 0, mem |-> NoMem, nalloc |-> 0,
               errat |-> NIL]

\* the lexer appends one more token
PushToken(tk) ==
    /\ ~pres.done
    /\ Len(tokens) < MaxTokens
    /\ query.kind = "none"
    /\ tokens' = Append(tokens, tk)
    /\ pres' = pres
    /\ query' = query

\* vxp_Parse() on a token list that the lexer closed with EOI
Parse ==
    /\ ~pres.done
    /\ tokens # <<>>
    /\ tokens[Len(tokens)].tok = "EOI"
    /\ pres' = With(vxp_Parse(tokens), LAMBDA r :
                  [done |-> TRUE, freed |-> FALSE, ret |-> r.ret,
                   err |-> r.px.err, t |-> r.px.t, ndiag |-> r.px.ndiag,
                   mem |-> r.px.mem, nalloc |-> r.px.nalloc,
                   errat |-> r.px.errat])
    /\ tokens' = tokens
    /\ query' = query

\* the caller releases the tree of a successful parse: vex_Free(&vex)
FreeTree ==
    /\ pres.done
    /\ ~pres.freed
    /\ pres.err = 0
    /\ pres.ret # NIL
    /\ pres' = [pres EXCEPT !.mem = vex_Free(pres.mem, pres.ret),
                            !.ret = NIL,
                            !.freed = TRUE]
    /\ UNCHANGED <<tokens, query>>

(* ---- queries made of parts ---- *)

\* longest chain of one connective, and most sub-queries in one token list
MaxChain == 4
MaxQueries == 3

\* payloads of the VAL token between '{' and '}'
LevelPayloads ==
    {<<"1">>, <<"2", "+">>, <<"0", "-">>, <<"-", "1">>, <<>>, <<"+">>,
     <<"-">>, <<"1", "x">>, <<"1", "+", "+">>}

\* tag lists: VXID and tag globs, to be separated by ','
TagLists ==
    {<<Val(<<"R">>)>>, <<Tk("VXID")>>, <<Tk("VXID"), Val(<<"R">>)>>,
     <<Val(<<"R">>), Tk("VXID")>>, <<Tk("VXID"), Tk("VXID")>>,
     <<Val(<<"R">>), Val(<<"B">>)>>}

PrefixPayloads == {<<>>, <<"p">>}
FieldPayloads == {<<"1">>, <<"0">>, <<"1", "x">>}
CmpOps == {"T_EQ", "T_GEQ", "T_SEQ", "~"}

\* payloads of the VAL token after the operator
RhsPayloads ==
    {<<"1">>, <<"1", ".", "5">>, <<"1", " ">>, <<>>, <<" ">>, <<"x">>,
     <<".">>, <<"1", ".", "x">>, <<"(">>}

Opt(S) == {NIL} \cup {Ptr(x) : x \in S}

\* every comparison the specification makes tokens of
CmpQueries ==
    {[kind |-> "cmp", level |-> l, tags |-> tg, prefix |-> pf, field |-> f,
      op |-> "", rhs |-> <<>>] :
        l \in Opt(LevelPayloads), tg \in TagLists, pf \in Opt(PrefixPayloads),
        f \in Opt(FieldPayloads)}
    \cup
    {[kind |-> "cmp", level |-> l, tags |-> tg, prefix |-> pf, field |-> f,
      op |-> o, rhs |-> r] :
        l \in Opt({<<"1">>}), tg \in TagLists, pf \in Opt(PrefixPayloads),
        f \in Opt({<<"1">>}), o \in CmpOps, r \in RhsPayloads}

RECURSIVE TagTokens(_)
TagTokens(tg) ==
    IF Len(tg) <= 1 THEN tg
    ELSE <<Head(tg), Tk(",")>> \o TagTokens(Tail(tg))

\* the tokens of a comparison, without the closing EOI
CmpTokens(q) ==
    (IF q.level = NIL THEN <<>>
     ELSE <<Tk("{"), Val(q.level[1]), Tk("}")>>)
    \o TagTokens(q.tags)
    \o (IF q.prefix = NIL THEN <<>> ELSE <<Tk(":"), Val(q.prefix[1])>>)
    \o (IF q.field = NIL THEN <<>>
        ELSE <<Tk("["), Val(q.field[1]), Tk("]")>>)
    \o (IF q.op = "" THEN <<>> ELSE <<Tk(q.op), Val(q.rhs)>>)

\* the lexer on the text of one comparison
LexCmp ==
    /\ ~pres.done
    /\ tokens = <<>>
    /\ \E q \in CmpQueries :
          /\ query' = q
          /\ tokens' = Append(CmpTokens(q), Tk("EOI"))
    /\ pres' = pres

\* the comparisons used as operands of the connectives
Operands ==
    {<<Val(<<"R">>)>>,
     <<Val(<<"B">>), Tk(":"), Val(<<"p">>), Tk("T_EQ"), Val(<<"1">>)>>,
     <<Val(<<"R">>), Tk("~"), Val(<<"R">>)>>,
     <<Val(<<"R">>), Tk("T_SEQ"), Val(<<"x">>)>>,
     <<Tk("VXID"), Tk("T_GEQ"), Val(<<"1">>)>>}

SeqsOf(S, lo, hi) == UNION {[1..k -> S] : k \in lo..hi}

\* every combination of comparisons the specification makes tokens of
ShapeQueries ==
    {[kind |-> "shape", form |-> f, ops |-> o] :
        f \in {"or_and", "and_or", "group", "unclosed"},
        o \in [1..3 -> Operands]}
    \cup
    {[kind |-> "shape", form |-> "not_and", ops |-> o] :
        o \in [1..2 -> Operands]}
    \cup
    {[kind |-> "shape", form |-> f, ops |-> o] :
        f \in {"chain_and", "chain_or"}, o \in SeqsOf(Operands, 2, MaxChain)}
    \cup
    {[kind |-> "shape", form |-> "multi", ops |-> o] :
        o \in SeqsOf(Operands \cup {<<>>}, 1, MaxQueries)}

\* the operands with sep between them
RECURSIVE Join(_, _)
Join(ops, sep) ==
    IF Len(ops) = 0 THEN <<>>
    ELSE IF Len(ops) = 1 THEN ops[1]
    ELSE ops[1] \o sep \o Join(Tail(ops), sep)

\* every sub-query followed by its EOI
RECURSIVE Terminated(_)
Terminated(ops) ==
    IF Len(ops) = 0 THEN <<>>
    ELSE ops[1] \o <<Tk("EOI")>> \o Terminated(Tail(ops))

ShapeTokens(q) ==
    LET a == q.ops[1]
        b == q.ops[2]
        c == q.ops[3]
        eoi == <<Tk("EOI")>>
    IN  CASE q.form = "or_and" ->
                a \o <<Tk("T_OR")>> \o b \o <<Tk("T_AND")>> \o c \o eoi
          [] q.form = "and_or" ->
                a \o <<Tk("T_AND")>> \o b \o <<Tk("T_OR")>> \o c \o eoi
          [] q.form = "not_and" ->
                <<Tk("T_NOT")>> \o a \o <<Tk("T_AND")>> \o b \o eoi
          [] q.form = "group" ->
                <<Tk("(")>> \o a \o <<Tk("T_OR")>> \o b \o <<Tk(")")>>
                \o <<Tk("T_AND")>> \o c \o eoi
          [] q.form = "unclosed" ->
                <<Tk("(")>> \o a \o <<Tk("T_OR")>> \o b
                \o <<Tk("T_AND")>> \o c \o eoi
          [] q.form = "chain_and" -> Join(q.ops, <<Tk("T_AND")>>) \o eoi
          [] q.form = "chain_or" -> Join(q.ops, <<Tk("T_OR")>>) \o eoi
          [] q.form = "multi" -> Terminated(q.ops)

\* the lexer on the text of a query that combines comparisons
LexShape ==
    /\ ~pres.done
    /\ tokens = <<>>
    /\ \E q \in ShapeQueries :
          /\ query' = q
          /\ tokens' = ShapeTokens(q)
    /\ pres' = pres

(* ------------------------ line assembly (vlu.c) ----------------------- *)

\* the bytes a feed is made of: a letter, the two line ends and the NUL byte
VluBytes == {"a", "LF", "CR", "NUL"}

MaxBufl == 3    \* the largest bufl an object is made with
MaxFeed == 4    \* the longest single feed
MaxFed == 5     \* the bytes fed to one object over its life

\* vlu.c:102 the test that ends a line
IsEol(c) == c = "LF" \/ c = "CR"

\* the C string at the start of s: the bytes in front of its first NUL
RECURSIVE CStr(_)
CStr(s) ==
    IF s = <<>> \/ Head(s) = "NUL" THEN <<>>
    ELSE <<Head(s)>> \o CStr(Tail(s))

\* vlu.c:101-104 the position of the first line end of s from k on, 0 if none
RECURSIVE EolAt(_, _)
EolAt(s, k) ==
    IF k > Len(s) THEN 0
    ELSE IF IsEol(s[k]) THEN k
    ELSE EolAt(s, k + 1)

\* vlu.c:108 the caller's callback: one that accepts every line, and one
\* that refuses an empty line
func(stop, line) == IF stop /\ line = <<>> THEN 1 ELSE 0

\* vlu.c:99-111 the loop over the complete lines: pre is what p has passed
\* (each line end overwritten with NUL), rest is the string from p on
RECURSIVE LineLoop(_, _, _, _)
LineLoop(stop, pre, rest, lines) ==
    LET q == EolAt(rest, 1) IN
    IF q = 0 THEN [i |-> 0, pre |-> pre, rest |-> rest, lines |-> lines]
    ELSE LET line == SubSeq(rest, 1, q - 1)
             pre2 == pre \o line \o <<"NUL">>
             rest2 == SubSeq(rest, q + 1, Len(rest))
             lines2 == Append(lines, [line |-> line, eol |-> rest[q]])
         IN  IF func(stop, line) # 0
             THEN [i |-> func(stop, line), pre |-> pre2, rest |-> rest2,
                   lines |-> lines2]
             ELSE LineLoop(stop, pre2, rest2, lines2)

\* vlu.c:92-121: buf holds the bufp bytes in use
LineUpProcess(l) ==
    LET s == CStr(l.buf)
        beyond == SubSeq(l.buf, Len(s) + 1, Len(l.buf))
        r == LineLoop(l.stop, <<>>, s, l.lines)
    IN  IF r.i # 0
        THEN [l EXCEPT !.i = r.i, !.buf = r.pre \o r.rest \o beyond,
                       !.lines = r.lines]
        ELSE [l EXCEPT !.i = 0, !.bufp = Len(r.rest), !.buf = r.rest,
                       !.lines = r.lines]

VARIABLES
    vlu         \* the struct vlu, the VLU_Feed call in progress on it, and
                \* what was fed to it and delivered by it so far

vluvars == <<vlu>>

\* no object yet
VluInit ==
    vlu = [pc |-> "none", bufl |-> 0, bufp |-> 0, buf |-> <<>>, ptr |-> <<>>,
           i |-> 0, ret |-> 0, stop |-> FALSE, aborted |-> FALSE,
           lines |-> <<>>, fed |-> <<>>]

\* vlu.c:56-73 (a bufsize of 0, which stands for BUFSIZ, is not drawn)
VLU_New(stop, bufsize) ==
    /\ vlu.pc = "none"
    /\ vlu' = [vlu EXCEPT !.pc = "idle", !.bufl = bufsize - 1, !.bufp = 0,
                          !.stop = stop]

\* vlu.c:153-162 the call, up to the head of the loop
VLU_Feed(ptr) ==
    /\ vlu.pc = "idle"
    /\ Len(ptr) > 0
    /\ Len(vlu.fed) + Len(ptr) <= MaxFed
    /\ vlu' = [vlu EXCEPT !.pc = "loop", !.ptr = ptr, !.i = 0,
                          !.fed = @ \o ptr]

\* vlu.c:162-169 one pass of while (len > 0), up to the call of LineUpProcess
FeedCopy ==
    /\ vlu.pc = "loop"
    /\ Len(vlu.ptr) > 0
    /\ LET room == vlu.bufl - vlu.bufp
           u == IF Len(vlu.ptr) > room THEN room ELSE Len(vlu.ptr)
       IN  vlu' = [vlu EXCEPT !.pc = "lineup",
                              !.buf = @ \o SubSeq(vlu.ptr, 1, u),
                              !.ptr = SubSeq(@, u + 1, Len(@)),
                              !.bufp = @ + u]

\* vlu.c:170-172 i = LineUpProcess(l); if (i) return (i)
FeedLineUp ==
    /\ vlu.pc = "lineup"
    /\ LET l == LineUpProcess(vlu) IN
       vlu' = IF l.i # 0
              THEN [l EXCEPT !.pc = "idle", !.ret = l.i, !.aborted = TRUE]
              ELSE [l EXCEPT !.pc = "loop"]

\* vlu.c:162,174 the loop ends and the call returns
FeedReturn ==
    /\ vlu.pc = "loop"
    /\ Len(vlu.ptr) = 0
    /\ vlu' = [vlu EXCEPT !.pc = "idle", !.ret = vlu.i]

(* --------------------------- specifications --------------------------- *)

vars ==
    <<page_size, array, rows, length, next, key, idx, live, op, failed, trace,
      phase, draining, lr, seen, dstart, ilayout, iu, ires, tokens, pres,
      query, vlu>>

Init ==
    /\ HeapInitP(HeapPageSizes)
    /\ GhostInit
    /\ IdxInit
    /\ ParseInit
    /\ VluInit

\* the heap under inserts, deletes and reorders in any order
DoInsert ==
    /\ \E e \in Elems, k \in Keys : Insert(e, k)
    /\ op' = "insert"
    /\ UNCHANGED <<ghostvars, idxvars, parsevars, vluvars>>

DoDelete ==
    /\ \E i \in 1..NElem :
          /\ Delete(i)
          /\ op' = IF i = next - 1 THEN "delete_tail" ELSE "delete"
    /\ UNCHANGED <<ghostvars, idxvars, parsevars, vluvars>>

DoReorder ==
    /\ \E i \in 1..NElem, k \in Keys : Reorder(i, k)
    /\ op' = "reorder"
    /\ UNCHANGED <<ghostvars, idxvars, parsevars, vluvars>>

Next == DoInsert \/ DoDelete \/ DoReorder

Spec == Init /\ [][Next]_vars

\* the same heap with enough elements for a link with a single child
DeepInsert ==
    /\ \E e \in DeepElems, k \in DeepKeys : Insert(e, k)
    /\ UNCHANGED <<op, ghostvars, idxvars, parsevars, vluvars>>

DeepDelete ==
    /\ \E i \in 1..DeepN : Delete(i)
    /\ UNCHANGED <<op, ghostvars, idxvars, parsevars, vluvars>>

DeepReorder ==
    /\ \E i \in 1..DeepN, k \in DeepKeys : Reorder(i, k)
    /\ UNCHANGED <<op, ghostvars, idxvars, parsevars, vluvars>>

NextDeep == DeepInsert \/ DeepDelete \/ DeepReorder

SpecDeep == Init /\ [][NextDeep]_vars

\* the same operations with a record of what each of them did
InitTrace ==
    /\ HeapInitT(HeapPageSizes, TRUE)
    /\ GhostInit
    /\ IdxInit
    /\ ParseInit
    /\ VluInit

SpecTrace == InitTrace /\ [][Next]_vars

\* round trip: inserts into a fresh heap, then deletes at any index
RTInsert ==
    /\ phase = "ins"
    /\ \E e \in Elems, k \in Keys : Insert(e, k)
    /\ UNCHANGED <<op, ghostvars, idxvars, parsevars, vluvars>>

RTDelete ==
    /\ \E i \in 1..NElem : Delete(i)
    /\ phase' = "del"
    /\ UNCHANGED <<op, draining, lr, seen, dstart, idxvars, parsevars, vluvars>>

NextRT == RTInsert \/ RTDelete

SpecRT == Init /\ [][NextRT]_vars

\* main(): the loop that removes everything, from any heap
Mutate ==
    /\ ~draining
    /\ \/ \E e \in Elems, k \in Keys : Insert(e, k)
       \/ \E i \in 1..NElem : Delete(i)
       \/ \E i \in 1..NElem, k \in Keys : Reorder(i, k)
    /\ UNCHANGED <<op, ghostvars, idxvars, parsevars, vluvars>>

\* vbh.c:598 lr = 0
StartDrain ==
    /\ ~draining
    /\ ~failed
    /\ draining' = TRUE
    /\ lr' = 0
    /\ seen' = {}
    /\ dstart' = live
    /\ UNCHANGED <<heapvars, phase, idxvars, parsevars, vluvars>>

\* vbh.c:600-609: fp = VBH_root(bh); lr = fp->key; VBH_delete(bh, fp->idx)
DrainStep ==
    /\ draining
    /\ VBH_root(Cur) \in Handles
    /\ LET fp == VBH_root(Cur) IN
       /\ lr' = key[fp]
       /\ seen' = seen \cup {fp}
       /\ Delete(idx[fp])
    /\ UNCHANGED <<op, phase, draining, dstart, idxvars, parsevars, vluvars>>

EndDrain ==
    /\ draining
    /\ VBH_root(Cur) \notin Handles
    /\ draining' = FALSE
    /\ lr' = 0
    /\ seen' = {}
    /\ dstart' = {}
    /\ UNCHANGED <<heapvars, phase, idxvars, parsevars, vluvars>>

NextDrain == Mutate \/ StartDrain \/ DrainStep \/ EndDrain

SpecDrain == Init /\ [][NextDrain]_vars

\* the index arithmetic on its own, for every page size and both layouts
InitIdx ==
    /\ HeapInitP(AllPageSizes)
    /\ GhostInit
    /\ IdxInit
    /\ ParseInit
    /\ VluInit

Probe ==
    /\ \E layout \in {"vm", "classic"}, u \in 1..UINT_MAX : IdxProbe(layout, u)
    /\ UNCHANGED <<heapvars, ghostvars, parsevars, vluvars>>

NextIdx == Probe

SpecIdx == InitIdx /\ [][NextIdx]_vars

\* the loop head of vbh_trickledown() at every slot of every heap size
Down ==
    /\ ~ires.done
    /\ \E u \in 1..(UINT_MAX - 1) : \E n \in (u + 1)..UINT_MAX : DownProbe(u, n)
    /\ UNCHANGED <<heapvars, ghostvars, parsevars, vluvars>>

NextDown == Down

SpecDown == InitIdx /\ [][NextDown]_vars

\* the parser on every token list over ParseAlphabet
Lex ==
    /\ \E tk \in ParseAlphabet : PushToken(tk)
    /\ UNCHANGED <<heapvars, ghostvars, idxvars, vluvars>>

DoParse ==
    /\ Parse
    /\ UNCHANGED <<heapvars, ghostvars, idxvars, vluvars>>

NextParse == Lex \/ DoParse

SpecParse == Init /\ [][NextParse]_vars

\* the parser on queries made of parts, and the release of the result
QueryCmp ==
    /\ LexCmp
    /\ UNCHANGED <<heapvars, ghostvars, idxvars, vluvars>>

QueryShape ==
    /\ LexShape
    /\ UNCHANGED <<heapvars, ghostvars, idxvars, vluvars>>

DoFree ==
    /\ FreeTree
    /\ UNCHANGED <<heapvars, ghostvars, idxvars, vluvars>>

NextQuery == QueryCmp \/ QueryShape \/ DoParse \/ DoFree

SpecQuery == Init /\ [][NextQuery]_vars

\* the line assembler under feeds of every size, one loop step at a time
RECURSIVE VluInputs(_)
VluInputs(n) ==
    IF n = 0 THEN {<<>>}
    ELSE LET S == VluInputs(n - 1) IN
         S \cup {Append(s, c) : s \in {t \in S : Len(t) = n - 1}, c \in VluBytes}

DoNew ==
    /\ \E stop \in BOOLEAN, bufsize \in 1..(MaxBufl + 1) : VLU_New(stop, bufsize)
    /\ UNCHANGED <<heapvars, ghostvars, idxvars, parsevars>>

DoFeed ==
    /\ vlu.pc = "idle"
    /\ \E ptr \in VluInputs(MaxFeed) : VLU_Feed(ptr)
    /\ UNCHANGED <<heapvars, ghostvars, idxvars, parsevars>>

DoCopy ==
    /\ FeedCopy
    /\ UNCHANGED <<heapvars, ghostvars, idxvars, parsevars>>

DoLineUp ==
    /\ FeedLineUp
    /\ UNCHANGED <<heapvars, ghostvars, idxvars, parsevars>>

DoReturn ==
    /\ FeedReturn
    /\ UNCHANGED <<heapvars, ghostvars, idxvars, parsevars>>

NextFeed == DoNew \/ DoFeed \/ DoCopy \/ DoLineUp \/ DoReturn

SpecFeed == Init /\ [][NextFeed]_vars

\* a call that has started keeps running: each step of it is taken
SpecFeedFair ==
    /\ SpecFeed
    /\ WF_vars(DoCopy)
    /\ WF_vars(DoLineUp)
    /\ WF_vars(DoReturn)

(* ------------------------------- claims ------------------------------- *)

\* the handle in slot u of the current heap
Slot(u) == A(Cur, u)

\* C1: when VBH_insert, VBH_delete or VBH_reorder has returned, no assert
\* has fired and for every slot u with 1 < u < next,
\* cmp(A[u], A[parent(u)]) is false, under the VM-aware layout.
C1_HeapProperty ==
    /\ ~failed
    /\ \A u \in 2..(next - 1) :
          ~cmp(Cur, Slot(u), Slot(parent(page_size, u)))

\* a full heap whose slot 6 is the single child of slot 4, in strict order
C1_Witness ==
    /\ next = DeepN + 1
    /\ child(page_size, 4) = <<6, 6>>
    /\ cmp(Cur, Slot(4), Slot(6))
    /\ cmp(Cur, Slot(1), Slot(3))

\* C2: after every public operation, every live element e has
\* 1 <= e.idx < next and A[e.idx] == e, and the element VBH_root returns
\* has idx == 1.
C2_IndexConsistent ==
    /\ \A e \in live : idx[e] \in 1..(next - 1) /\ Slot(idx[e]) = e
    /\ next > ROOT_IDX => VBH_root(Cur) \in live /\ idx[VBH_root(Cur)] = 1

\* a delete in the middle of a heap moved the tail element to another slot
C2_Witness ==
    /\ op = "delete"
    /\ next = NElem
    /\ \E e \in live : idx[e] = 2 /\ Slot(2) = e

\* C3: while the drain loop runs, the elements removed so far and the
\* elements still in the heap are disjoint and together are the elements
\* the loop started with, and the key of each removed element is not below
\* the key of the one removed before it.
C3_DrainInOrder ==
    [][(draining' => /\ seen' \cap live' = {}
                     /\ seen' \cup live' = dstart')
       /\ (draining /\ draining' => lr' >= lr)]_vars

\* a drain of a full heap with different keys has run to the end
C3_Witness ==
    /\ draining
    /\ next = ROOT_IDX
    /\ seen = Elems
    /\ dstart = Elems
    /\ lr = MaxKey

\* e has no live element of strictly higher priority
Minimal(e) == \A o \in live \ {e} : ~cmp(Cur, o, e)

\* C4 as stated: VBH_root returns the handle in slot 1, which is the only
\* live element that no other live element precedes; null on an empty heap.
C4_RootUnique ==
    IF next = ROOT_IDX THEN VBH_root(Cur) = NULL
    ELSE /\ VBH_root(Cur) \in live
         /\ Minimal(VBH_root(Cur))
         /\ \A e \in live : Minimal(e) => e = VBH_root(Cur)

\* C4 amended: VBH_root returns the handle in slot 1, which is a live
\* element that no other live element precedes, and every live element
\* with that property has the same key; null on an empty heap.
C4_RootMinimal ==
    IF next = ROOT_IDX THEN VBH_root(Cur) = NULL /\ live = {}
    ELSE /\ VBH_root(Cur) = Slot(ROOT_IDX)
         /\ VBH_root(Cur) \in live
         /\ Minimal(VBH_root(Cur))
         /\ \A e \in live : Minimal(e) => key[e] = key[VBH_root(Cur)]

\* two live elements tie for the root after a delete
C4_Witness ==
    /\ op = "delete"
    /\ next > 2
    /\ \E e \in live \ {VBH_root(Cur)} :
          key[e] = key[VBH_root(Cur)] /\ Minimal(e)

\* C5: when VBH_delete returns, tail slot or not, the removed element's
\* idx is VBH_NOIDX, it is in no slot of [1, next), and next is one less.
C5_DeleteNotifies ==
    [][op' \in {"delete", "delete_tail"} =>
         /\ next' = next - 1
         /\ Cardinality(live \ live') = 1
         /\ \A e \in live \ live' :
               /\ idx'[e] = VBH_NOIDX
               /\ \A u \in 1..(next' - 1) :
                     array'[u \div ROW_WIDTH][u % ROW_WIDTH] # e]_vars

\* a delete that was not of the tail slot has returned
C5_Witness ==
    /\ op = "delete"
    /\ next = NElem
    /\ \E e \in Elems \ live : idx[e] = VBH_NOIDX

C8_RoundTripShrink ==
    phase = "del" /\ next = ROOT_IDX => length \div ROW_WIDTH <= 2

\* C9 as stated: for every slot u with 1 < u < next,
\* cmp(A[parent(u)], A[u]) is false.
C9_ParentNotBefore ==
    \A u \in 2..(next - 1) :
        ~cmp(Cur, Slot(parent(page_size, u)), Slot(u))

\* C9 amended: for every slot u with 1 < u < next, the key in parent(u) is
\* at most the key in u, that is cmp(A[u], A[parent(u)]) is false.
C9_ChildNotBefore ==
    \A u \in 2..(next - 1) :
        key[Slot(parent(page_size, u))] <= key[Slot(u)]

\* a reorder left a parent strictly before its child
C9_Witness ==
    /\ op = "reorder"
    /\ next = NElem + 1
    /\ key[Slot(2)] < key[Slot(4)]

\* C10: when vxp_Parse hit a parse error it returned null and nothing
\* allocated during the call is still allocated.
C10_NoLeakOnError ==
    pres.done /\ pres.err # 0 => pres.ret = NIL /\ pres.mem = NoMem

\* C19: a failed parse wrote exactly one diagnostic, and the current token
\* and the number of allocations made are what they were when the error
\* flag was set: nothing was consumed or allocated after the error.
C19_ErrorUnwinds ==
    pres.done /\ pres.err # 0 =>
        /\ pres.ndiag = 1
        /\ pres.errat # NIL
        /\ pres.t = pres.errat[1].t
        /\ pres.nalloc = pres.errat[1].nalloc

\* an error found at the fourth token, after nodes had been allocated
C19_Witness ==
    /\ pres.done
    /\ pres.err # 0
    /\ pres.errat # NIL
    /\ pres.errat[1].t = 4
    /\ pres.errat[1].nalloc >= 6

(* ------------------------- the parser's claims ------------------------ *)

\* the left-hand side of the comparison a successful parse returned
RootLhs == pres.ret[1].lhs[1]
RootRhs == pres.ret[1].rhs

\* a comparison was parsed and accepted
Accepted == pres.done /\ ~pres.freed /\ pres.err = 0 /\ query.kind = "cmp"

\* the payload without a final '+' or '-'
LevelNumber(cs) ==
    IF cs # <<>> /\ cs[Len(cs)] \in {"+", "-"}
    THEN SubSeq(cs, 1, Len(cs) - 1) ELSE cs

AllDigits(cs) == cs # <<>> /\ \A i \in 1..Len(cs) : cs[i] \in Digits

\* C17: a level qualifier is accepted only when its payload is a
\* non-negative integer N optionally followed by one '+' or '-'; then the
\* level is N and the modifier +1 for '+', -1 for '-', 0 for bare N; every
\* other payload, one without digits included, is a parse error.
C17_LevelPayload ==
    Accepted /\ query.level # NIL =>
        LET cs == query.level[1] IN
        /\ AllDigits(LevelNumber(cs))
        /\ RootLhs.level = DigitRun(LevelNumber(cs), 0).val
        /\ RootLhs.level_pm = (IF cs[Len(cs)] = "+" THEN 1
                               ELSE IF cs[Len(cs)] = "-" THEN 0 - 1 ELSE 0)

HasVxid(q) == \E i \in 1..Len(q.tags) : q.tags[i].tok = "VXID"

\* C16: a left-hand side with VXID is accepted only alone: with a tag
\* name, a second VXID, a level qualifier, a record prefix of any length
\* (the empty one included) or a field index the parse fails, and so it
\* does unless a numeric operator and an integer right-hand side follow.
C16_VxidAlone ==
    Accepted /\ HasVxid(query) =>
        /\ query.tags = <<Tk("VXID")>>
        /\ query.level = NIL
        /\ query.prefix = NIL
        /\ query.field = NIL
        /\ query.op \in NumericOps
        /\ RootRhs # NIL
        /\ RootRhs[1].type = "VEX_INT"

\* a decimal integer literal, optionally signed, optionally followed only by
\* whitespace
IntLiteral(cs) ==
    \E n \in 1..Len(cs) :
        /\ LET s == SubSeq(cs, 1, n)
               d == IF Head(s) \in {"+", "-"} THEN Tail(s) ELSE s
           IN  AllDigits(d)
        /\ \A i \in (n + 1)..Len(cs) : cs[i] = " "

\* digits, a '.', digits
FloatLiteral(cs) ==
    \E n \in 1..Len(cs) :
        /\ cs[n] = "."
        /\ AllDigits(SubSeq(cs, 1, n - 1))
        /\ n = Len(cs) \/ AllDigits(SubSeq(cs, n + 1, Len(cs)))

NumericQuery ==
    pres.done /\ ~pres.freed /\ query.kind = "cmp" /\ query.op \in NumericOps

\* C20: after a numeric operator the right-hand side is typed FLOAT iff the
\* payload contains a '.', otherwise INT, and the parse fails whenever the
\* payload is not a well-formed number of that type (for INT an integer
\* literal optionally followed only by whitespace).
C20_NumericRhs ==
    NumericQuery /\ pres.err = 0 =>
        /\ RootRhs # NIL
        /\ RootRhs[1].type = (IF HasDot(query.rhs) THEN "VEX_FLOAT"
                              ELSE "VEX_INT")
        /\ IF HasDot(query.rhs) THEN FloatLiteral(query.rhs)
           ELSE IntLiteral(query.rhs)

\* C11: after vex_Free on the tree of a successful parse every node, LHS
\* record, tag bitmap, prefix string, RHS record, value string and compiled
\* regex has been released exactly once (each count of live allocations is
\* back at zero, none below), and the caller's pointer is null.
C11_FreeReleasesAll ==
    pres.freed => pres.mem = NoMem /\ pres.ret = NIL

\* a freed tree of three comparisons that together held every kind of
\* allocation
C11_Witness ==
    /\ pres.freed
    /\ query.kind = "shape" /\ query.form = "or_and"
    /\ query.ops[1] = <<Val(<<"R">>), Tk("~"), Val(<<"R">>)>>
    /\ query.ops[2] = <<Val(<<"B">>), Tk(":"), Val(<<"p">>), Tk("T_EQ"),
                        Val(<<"1">>)>>
    /\ pres.nalloc = 18

\* a comparison node: a left-hand side, no children, and the right-hand side
\* its operator asks for
WellFormedLeaf(v) ==
    /\ v.lhs # NIL
    /\ v.a = NIL /\ v.b = NIL
    /\ v.tok = "T_TRUE" => v.rhs = NIL
    /\ v.tok \in NumericOps =>
          /\ v.rhs # NIL
          /\ v.rhs[1].type \in {"VEX_INT", "VEX_FLOAT"}
          /\ v.lhs[1].vxid # 0 => v.rhs[1].type = "VEX_INT"
    /\ v.tok \in StringOps =>
          v.rhs # NIL /\ v.rhs[1].type = "VEX_STRING"
    /\ v.tok \in MatchOps =>
          /\ v.rhs # NIL
          /\ v.rhs[1].type = "VEX_REGEX"
          /\ v.rhs[1].val_regex # NIL

RECURSIVE WellFormed(_)
WellFormed(vex) ==
    LET v == vex[1] IN
    CASE v.tok \in {"T_AND", "T_OR"} ->
            /\ v.lhs = NIL /\ v.rhs = NIL
            /\ v.a # NIL /\ v.b # NIL
            /\ WellFormed(v.a) /\ WellFormed(v.b)
      [] v.tok = "T_NOT" ->
            /\ v.lhs = NIL /\ v.rhs = NIL
            /\ v.a # NIL /\ v.b = NIL
            /\ WellFormed(v.a)
      [] v.tok \in {"T_TRUE"} \cup NumericOps \cup StringOps \cup MatchOps ->
            WellFormedLeaf(v)
      [] OTHER -> FALSE

\* C12: every tree a successful vxp_Parse returns is well-formed: a leaf has
\* a left-hand side and no children, no right-hand side under T_TRUE, an INT
\* or FLOAT one under a numeric operator (INT when the left-hand side is
\* VXID), a STRING one under eq/ne, a REGEX one with a compiled handle under
\* ~ and !~; AND and OR nodes have both children and neither side; NOT nodes
\* have only child a and neither side.
C12_WellFormedTree ==
    pres.done /\ ~pres.freed /\ pres.err = 0 /\ pres.ret # NIL =>
        WellFormed(pres.ret)

\* a returned tree with a NOT node over a regex match, and-ed with a
\* comparison on the VXID
C12_Witness ==
    /\ pres.done /\ ~pres.freed /\ pres.err = 0 /\ pres.ret # NIL
    /\ pres.ret[1].tok = "T_AND"
    /\ pres.ret[1].a[1].tok = "T_NOT"
    /\ pres.ret[1].a[1].a[1].tok = "~"
    /\ pres.ret[1].b[1].tok = "T_GEQ"
    /\ pres.ret[1].b[1].lhs[1].vxid = 1

\* the tree vxp_Parse returns for the comparison x alone
Leaf(x) == vxp_Parse(Append(x, Tk("EOI"))).ret

Node(tok, a, b) == Ptr([NewNode EXCEPT !.tok = tok, !.a = a, !.b = b])

\* a query that combines comparisons was parsed
Combined(form) == pres.done /\ query.kind = "shape" /\ query.form = form

Parsed == pres.err = 0 /\ ~pres.freed

\* C13: not binds tighter than and, and tighter than or: for all comparisons
\* a, b, c, "a or b and c" parses as OR(a, AND(b, c)), "a and b or c" as
\* OR(AND(a, b), c) and "not a and b" as AND(NOT(a), b).
C13_Precedence ==
    LET a == Leaf(query.ops[1])
        b == Leaf(query.ops[2])
        c == Leaf(query.ops[3])
    IN  /\ Combined("or_and") /\ ~pres.freed =>
              /\ pres.err = 0
              /\ pres.ret = Node("T_OR", a, Node("T_AND", b, c))
        /\ Combined("and_or") /\ ~pres.freed =>
              /\ pres.err = 0
              /\ pres.ret = Node("T_OR", Node("T_AND", a, b), c)
        /\ Combined("not_and") /\ ~pres.freed =>
              /\ pres.err = 0
              /\ pres.ret = Node("T_AND", Node("T_NOT", a, NIL), b)

\* "a or b and c" with three different comparisons was parsed
C13_Witness ==
    /\ Combined("or_and") /\ Parsed
    /\ pres.ret[1].tok = "T_OR"
    /\ pres.ret[1].b[1].tok = "T_AND"
    /\ Cardinality({query.ops[1], query.ops[2], query.ops[3]}) = 3

\* op(...op(op(x1, x2), x3)..., xn)
RECURSIVE LeftNested(_, _)
LeftNested(tok, ops) ==
    IF Len(ops) = 1 THEN Leaf(ops[1])
    ELSE Node(tok, LeftNested(tok, SubSeq(ops, 1, Len(ops) - 1)),
              Leaf(ops[Len(ops)]))

\* C14: and and or are left-associative: a chain x1 op x2 op ... op xn of
\* one connective parses as op(...op(op(x1, x2), x3)..., xn), the node built
\* so far always becoming child a of the new node.
C14_LeftAssociative ==
    /\ Combined("chain_and") /\ ~pres.freed =>
          /\ pres.err = 0
          /\ pres.ret = LeftNested("T_AND", query.ops)
    /\ Combined("chain_or") /\ ~pres.freed =>
          /\ pres.err = 0
          /\ pres.ret = LeftNested("T_OR", query.ops)

\* a chain of four comparisons under and: the root's child a holds the node
\* of the first three, whose child a holds the node of the first two
C14_Witness ==
    /\ Combined("chain_and") /\ Parsed
    /\ Len(query.ops) = 4
    /\ query.ops[1] # query.ops[4]
    /\ pres.ret[1].a[1].a[1].tok = "T_AND"
    /\ pres.ret[1].b[1].tok # "T_AND"

\* C15: parentheses override precedence and leave no node of their own:
\* "(a or b) and c" parses as AND(OR(a, b), c); a '(' that has no ')' after
\* the expression inside it is a parse error.
C15_Grouping ==
    /\ Combined("group") /\ ~pres.freed =>
          /\ pres.err = 0
          /\ pres.ret = Node("T_AND",
                             Node("T_OR", Leaf(query.ops[1]),
                                  Leaf(query.ops[2])),
                             Leaf(query.ops[3]))
    /\ Combined("unclosed") => pres.err # 0 /\ pres.ret = NIL

\* "(a or b) and c" was parsed with b and c different comparisons
C15_Witness ==
    /\ Combined("group") /\ Parsed
    /\ pres.ret[1].tok = "T_AND"
    /\ pres.ret[1].a[1].tok = "T_OR"
    /\ query.ops[2] # query.ops[3]

\* the sub-queries that are not empty, in the order of the text
SubQueries(ops) == SelectSeq(ops, LAMBDA x : x # <<>>)

\* OR(xk, OR(..., OR(x2, x1))): each new sub-query as child a, the tree
\* accumulated so far as child b
RECURSIVE Chained(_)
Chained(xs) ==
    IF Len(xs) = 1 THEN Leaf(xs[1])
    ELSE Node("T_OR", Leaf(xs[Len(xs)]), Chained(SubSeq(xs, 1, Len(xs) - 1)))

\* C18: for a token stream of k >= 1 non-empty sub-queries, each closed by
\* EOI, and any number of empty ones, vxp_Parse returns one tree holding the
\* k sub-query trees under k-1 OR nodes, each OR node with the newly parsed
\* sub-query as a and the tree accumulated so far as b; for k = 1 it returns
\* the tree of the sub-query itself.
C18_TopLevelChaining ==
    Combined("multi") /\ ~pres.freed /\ SubQueries(query.ops) # <<>> =>
        /\ pres.err = 0
        /\ pres.ret = Chained(SubQueries(query.ops))

\* three different sub-queries were parsed
C18_Witness ==
    /\ Combined("multi") /\ Parsed
    /\ Len(SubQueries(query.ops)) = 3
    /\ Cardinality({query.ops[i] : i \in 1..3}) = 3
    /\ pres.ret[1].tok = "T_OR"
    /\ pres.ret[1].b[1].tok = "T_OR"
    /\ pres.ret[1].a = Leaf(query.ops[3])

(* ---------------------- the heap's further claims --------------------- *)

\* C21: between public operations, after any inserts and deletes at valid
\* indices, length - next < 2 * ROW_WIDTH: at most two rows' worth of slots
\* are unused, a tail row being released as soon as
\* next + 2 * ROW_WIDTH <= length.
C21_BoundedSpare ==
    length - next < 2 * ROW_WIDTH

\* the slot a bottom-row element's children start at, computed without a
\* word width: the page of u halved plus the column of u plus one, in pages
CrossPageTarget(P, u) ==
    (((u - (u % P)) \div 2) + (u % (P \div 2)) + 1) * P

\* u is in the bottom row of a page that is not entered at u
BottomRow(P, u) ==
    /\ (u % P) \div (P \div 2) = 1
    /\ ~(u >= P /\ u % P < 2)

L == trace.log

Writes(u) == {j \in 1..Len(L) : L[j].ev = "write" /\ L[j].u = u}

\* C23: whenever the update callback is invoked with an index other than
\* VBH_NOIDX for an element, that slot holds the element at that moment;
\* every store of a handle into a slot during insert, swap or delete is
\* followed, before the public operation returns, by a notification for
\* that slot that names the handle stored; and the indices the
\* notifications left behind give back the slot-to-element map.
C23_NotificationsTrack ==
    trace.on /\ ~failed =>
        /\ \A j \in 1..Len(L) : L[j].ev = "update" => L[j].ok
        /\ \A j \in 1..Len(L) :
              L[j].ev = "write" /\ L[j].p \in Handles =>
                 \E k \in (j + 1)..Len(L) :
                    /\ L[k].ev = "update"
                    /\ L[k].u = L[j].u
                    /\ L[k].p = L[j].p
                    /\ Writes(L[j].u) \cap (j + 1)..(k - 1) = {}
        /\ \A u \in 1..(next - 1) : idx[Slot(u)] = u
        /\ \A e \in live : Slot(idx[e]) = e

\* a delete moved the tail element into the vacated slot and swapped it on
C23_Witness ==
    /\ trace.on /\ op = "delete"
    /\ \E j \in 1..Len(L) : L[j].ev = "swap"
    /\ \E j \in 1..Len(L) : L[j].ev = "update" /\ L[j].u = VBH_NOIDX
    /\ Cardinality({j \in 1..Len(L) : L[j].ev = "update"}) >= 4

\* the position of the entry into vbh_trickledown() in the events
DownAt == CHOOSE j \in 1..Len(L) : L[j].ev = "down"

SwapsUp == {j \in 1..(DownAt - 1) : L[j].ev = "swap"}
SwapsDown == {j \in (DownAt + 1)..Len(L) : L[j].ev = "swap"}

\* C22: in VBH_reorder(idx), on a heap in which only the element at idx may
\* be out of order, at most one of the two trickles swaps: when
\* vbh_trickleup moved the element up at least one level, the
\* vbh_trickledown that follows performs no swap.
C22_OneTrickleSwaps ==
    trace.on /\ ~failed /\ op = "reorder" =>
        (SwapsUp # {} => SwapsDown = {})

\* a reorder moved the element of slot 4 up two levels to the root
C22_Witness ==
    /\ trace.on /\ ~failed /\ op = "reorder"
    /\ L[1].ev = "up" /\ L[1].u = 4
    /\ Cardinality(SwapsUp) = 2
    /\ L[DownAt].u = ROOT_IDX
    /\ SwapsDown = {}

\* event j happened after vbh_trickledown() was entered
InDown(j) == \E k \in 1..(j - 1) : L[k].ev = "down"

Swaps == {j \in 1..Len(L) : L[j].ev = "swap"}

\* C25: under their preconditions VBH_insert, VBH_delete and VBH_reorder
\* return and no assert fails: every swap of vbh_trickleup is with
\* parent(u), an occupied slot below u and below next; every swap of
\* vbh_trickledown is with a child of u, an occupied slot above u and below
\* next, the children being 0 < v1 <= v2; and each swap starts where the
\* one before it in the same trickle ended.
C25_TotalNoAssert ==
    /\ ~failed
    /\ trace.on =>
          /\ \A j \in Swaps :
                LET u == L[j].u
                    v == L[j].v
                    c == child(page_size, u)
                IN  /\ 0 < v /\ v < next /\ u < next
                    /\ Slot(u) \in Handles /\ Slot(v) \in Handles
                    /\ IF InDown(j)
                       THEN /\ 0 < c[1] /\ c[1] <= c[2]
                            /\ v \in {c[1], c[2]}
                            /\ u < v
                       ELSE v = parent(page_size, u) /\ v < u
          /\ \A j \in Swaps, k \in Swaps :
                (/\ j < k
                 /\ InDown(j) = InDown(k)
                 /\ \A m \in (j + 1)..(k - 1) : m \notin Swaps)
                => L[k].u = L[j].v

\* a reorder moved the root down two levels into the slot that starts the
\* next page
C25_Witness ==
    /\ trace.on /\ ~failed /\ op = "reorder"
    /\ Cardinality({j \in Swaps : InDown(j)}) = 2
    /\ \E j \in Swaps : L[j].u = 2 /\ L[j].v = 4
    /\ \E j \in Swaps : L[j].u = ROOT_IDX

\* how many slots of [1, next) hold the handle e
Count(e) == Cardinality({u \in 1..(next - 1) : Slot(u) = e})

\* C26: after any public operations the multiset of handles in the slots
\* [1, next) is the multiset of handles inserted and not deleted, and
\* next - 1 is the number of live elements; VBH_reorder changes neither the
\* multiset nor next nor length.
C26_Conservation ==
    /\ [](/\ \A e \in Handles : Count(e) = (IF e \in live THEN 1 ELSE 0)
          /\ \A u \in 1..(next - 1) : Slot(u) \in Handles
          /\ next - 1 = Cardinality(live))
    /\ [][op' = "reorder" =>
            /\ next' = next
            /\ length' = length
            /\ rows' = rows
            /\ live' = live
            /\ {array'[u \div ROW_WIDTH][u % ROW_WIDTH] : u \in 1..(next - 1)}
                 = {Slot(u) : u \in 1..(next - 1)}]_vars

\* a reorder of a full heap changed which slots hold which handles
C26_Witness ==
    /\ op = "reorder"
    /\ next = NElem + 1
    /\ live = Elems
    /\ \E u \in 1..NElem : idx[Slot(u)] = u /\ Slot(u) # u
    /\ key[Slot(ROOT_IDX)] < key[Slot(NElem)]

(* ------------------------ the line assembler's claim ------------------ *)

\* the bytes of the lines handed to the callback, each with its line end
RECURSIVE Delivered(_)
Delivered(lines) ==
    IF lines = <<>> THEN <<>>
    ELSE Head(lines).line \o <<Head(lines).eol>> \o Delivered(Tail(lines))

\* C27: every call of VLU_Feed returns, whatever the buffer size and the
\* input; bufp never exceeds bufl; and when the call returns 0, the bytes
\* fed so far are the lines delivered to the callback followed by the
\* unterminated tail kept in the buffer
C27_FeedReturnsAndKeeps ==
    /\ [](vlu.bufp <= vlu.bufl)
    /\ [](vlu.pc = "idle" /\ vlu.ret = 0 /\ ~vlu.aborted
            => Delivered(vlu.lines) \o vlu.buf = vlu.fed)
    /\ (vlu.pc \in {"loop", "lineup"}) ~> (vlu.pc = "idle")

=============================================================================
